---- MODULE Spec2Model ----
(***************************************************************************)
(* Snake - Reimagined (src/script.js): the simulation state machine        *)
(* (startNewGame, placeFood, stepSnake, triggerGameOver, queueDirection),  *)
(* the keydown listener, the fixed-step driver (loop) and the debug        *)
(* surface window.SnakeGame.                                               *)
(*                                                                         *)
(* Grid positions and direction vectors are pairs <<x, y>>.  The snake is  *)
(* a sequence of positions, tail first, head last, as in the source.       *)
(*                                                                         *)
(* Time.  Frame delta-times are whole milliseconds.  stepProgress is kept  *)
(* in units of 1/ONE of a step, ONE = 2000, so that                        *)
(*    dt[s] * 7.5  =  dt[ms] * 15 / 2000                                   *)
(* is an exact integer number of units; the arithmetic of loop() is then   *)
(* the source's arithmetic without rounding error.                         *)
(*                                                                         *)
(* Particles.  The model records the particles pushed by the handler that  *)
(* ran last (their spawn positions, in pushing order) in `spawned`.  The   *)
(* velocity, lifetime and size of a particle and the integrator of         *)
(* lines 320-335 are not modelled.                                         *)
(***************************************************************************)
EXTENDS Integers, Sequences, FiniteSets, TLC

\* ---------------------------------------------------------------- constants
CELL == 14
GRID_W == 40
GRID_H == 28
STEPS_PER_SECOND_X2 == 15
MS_PER_SECOND == 1000
MAX_DT_MS == 100
MAX_TRIES == 1000
EAT_SCORE == 10
EAT_GROW == 2
EAT_PARTICLES == 18
DEATH_PARTICLES == 36

ONE == 2 * MS_PER_SECOND

DIRS == [left  |-> <<-1, 0>>,
         right |-> <<1, 0>>,
         up    |-> <<0, -1>>,
         down  |-> <<0, 1>>]

Null == <<>>

NoDir == <<0, 0>>

FALLBACK_FOOD == <<1, 1>>

keyDirMap == [ArrowLeft  |-> DIRS.left,  KeyA |-> DIRS.left,
              ArrowRight |-> DIRS.right, KeyD |-> DIRS.right,
              ArrowUp    |-> DIRS.up,    KeyW |-> DIRS.up,
              ArrowDown  |-> DIRS.down,  KeyS |-> DIRS.down]

\* ------------------------------------------------------------------- bounds
\* Spec: short games, every key.
MaxGames == 2
MaxSteps == 5
MaxKeys == 3
\* SpecLong: one long game steered towards the top-left corner.
MaxGamesLong == 1
MaxStepsLong == 32
MaxKeysLong == 3
\* ages of eat events are counted up to MaxAge ("MaxAge or more")
MaxAge == 3

\* key codes delivered to the keydown listener
KeyCodes == {"Space", "Escape", "ArrowLeft", "ArrowRight", "ArrowUp",
             "ArrowDown", "KeyA", "KeyD", "KeyW", "KeyS"}
KeyCodesLong == {"Space", "ArrowUp", "ArrowLeft", "ArrowDown"}

\* raw elapsed times (now - last), in ms, of a frame
Elapsed == {0, 50, 100, 250}
ElapsedLong == {100, 250}

\* cells the random sampling of placeFood may produce
FoodSamples == {<<20, 14>>, <<21, 14>>, <<22, 14>>}
FoodSamplesLong == {<<19, 14>>, <<20, 14>>, <<1, 1>>}

VARIABLES
    playing, gameOver, score,        \* lines 32-34
    stepProgress,                    \* line 39
    snake, prevSnake, dir, nextDir, grow,   \* lines 50-54
    food,                            \* line 57
    spawned,   \* particles pushed by the last handler (spawn positions)
    lastOp,    \* the handler that ran last
    lastKey,   \* the direction handed to queueDirection by the last handler
    stepsDone, \* number of stepSnake calls made by the last handler
    stepDirs,  \* <<d1, d2>>: directions of the last two executed steps of this game
    eatLog,    \* eat events of this game, oldest first: [age: non-colliding steps
               \* executed since (up to MaxAge), g: grow right after the eat]
    foodPlaced, \* number of placeFood calls made by the last handler
    games, steps, keys   \* counters that bound the exploration

vars == <<playing, gameOver, score, stepProgress, snake, prevSnake, dir,
          nextDir, grow, food, spawned, lastOp, lastKey, stepsDone,
          stepDirs, eatLog, foodPlaced, games, steps, keys>>

\* ------------------------------------------------------------------ helpers
Min(a, b) == IF a < b THEN a ELSE b

Head1(s) == s[Len(s)]

\* faulty variant: only the head is compared
FoodCollision_HeadOnly(s, c) == s[Len(s)][1] = c[1] /\ s[Len(s)][2] = c[2]

\* line 89: snake.some(s => s.x === fx && s.y === fy)
FoodCollision(s, c) == \E i \in DOMAIN s : s[i][1] = c[1] /\ s[i][2] = c[2]

\* faulty variant: only the head is compared
SelfCollision_HeadOnly(s, c) == s[Len(s)][1] = c[1] /\ s[Len(s)][2] = c[2]

\* line 115: snake.some(s => s.x === newHead.x && s.y === newHead.y)
SelfCollision(s, c) == \E i \in DOMAIN s : s[i][1] = c[1] /\ s[i][2] = c[2]

\* faulty variant: the lower limits are not tested
OutOfBounds_UpperOnly(c) == c[1] >= GRID_W \/ c[2] >= GRID_H

\* faulty variant: the upper limits are tested with > instead of >=
OutOfBounds_OffByOne(c) == c[1] < 0 \/ c[1] > GRID_W \/ c[2] < 0 \/ c[2] > GRID_H

\* line 109
OutOfBounds(c) == c[1] < 0 \/ c[1] >= GRID_W \/ c[2] < 0 \/ c[2] >= GRID_H

\* lines 67-74
InitialSnake ==
    LET cx == GRID_W \div 2
        cy == GRID_H \div 2
    IN  << <<cx - 3, cy>>, <<cx - 2, cy>>, <<cx - 1, cy>>, <<cx, cy>> >>

\* placeFood, lines 83-98: the cells `food` may hold afterwards.  Each try
\* draws a cell of `samples`; the first one not on the snake is taken; when
\* all MAX_TRIES draws land on the snake the fallback cell is taken.
PlaceFood(s, samples) ==
    {c \in samples : ~FoodCollision(s, c)}
    \cup (IF MAX_TRIES = 0 \/ \E c \in samples : FoodCollision(s, c)
          THEN {FALLBACK_FOOD} ELSE {})

\* spawnEatParticles, lines 142-157: n particles at the centre of the cell
SpawnEatParticles(gridX, gridY, n) ==
    LET cx == ((2 * gridX + 1) * CELL) \div 2
        cy == ((2 * gridY + 1) * CELL) \div 2
    IN  [i \in 1..n |-> <<cx, cy>>]

\* lines 158-160
SpawnDeathParticles(gridX, gridY, n) == SpawnEatParticles(gridX, gridY, n)

\* faulty variant: only the pending direction is tested
IsReversal_PendOnly(d, cur, pend) == d[1] + pend[1] = 0 /\ d[2] + pend[2] = 0

\* faulty variant: only the committed direction is tested
IsReversal_CurOnly(d, cur, pend) == d[1] + cur[1] = 0 /\ d[2] + cur[2] = 0

\* line 182: the test that makes queueDirection return early
IsReversal(d, cur, pend) ==
    \/ (d[1] + cur[1] = 0 /\ d[2] + cur[2] = 0)
    \/ (d[1] + pend[1] = 0 /\ d[2] + pend[2] = 0)

\* queueDirection, lines 180-186: the new value of nextDir
QueueDirection(d, cur, pend) == IF IsReversal(d, cur, pend) THEN pend ELSE d

\* ------------------------------------------------------------ the simulation
\* The part of the state that startNewGame / stepSnake work on, as a record;
\* `log` lists the steps made by the running handler, one entry per call of
\* stepSnake: the direction used, whether it ate, whether it collided, and
\* the growth counter it left.
Sim == [snake |-> snake, prevSnake |-> prevSnake, grow |-> grow,
        score |-> score, food |-> food, playing |-> playing,
        gameOver |-> gameOver, dir |-> dir, nextDir |-> nextDir,
        stepProgress |-> stepProgress,
        spawned |-> <<>>, placed |-> 0, log |-> <<>>]

\* faulty variant: `playing` is left set
TriggerGameOver_KeepPlaying(g) ==
    [g EXCEPT !.gameOver = TRUE,
              !.spawned = @ \o SpawnDeathParticles(Head1(g.snake)[1],
                                                   Head1(g.snake)[2],
                                                   DEATH_PARTICLES)]

\* faulty variant: the burst is spawned at snake[0], the tail
TriggerGameOver_AtTail(g) ==
    [g EXCEPT !.gameOver = TRUE,
              !.playing = FALSE,
              !.spawned = @ \o SpawnDeathParticles(g.snake[1][1], g.snake[1][2],
                                                   DEATH_PARTICLES)]

\* triggerGameOver, lines 136-140
TriggerGameOver(g) ==
    [g EXCEPT !.gameOver = TRUE,
              !.playing = FALSE,
              !.spawned = @ \o SpawnDeathParticles(Head1(g.snake)[1],
                                                   Head1(g.snake)[2],
                                                   DEATH_PARTICLES)]

\* faulty variant: the new head is put in front (unshift instead of push)
MoveBody_Unshift(s, newHead, gr) ==
    IF gr > 0 THEN <<newHead>> \o s ELSE Tail(<<newHead>> \o s)

\* faulty variant: the tail is never removed
MoveBody_NoShift(s, newHead, gr) == Append(s, newHead)

\* lines 120-125: the body after the new head is pushed
MoveBody(s, newHead, gr) ==
    IF gr > 0 THEN Append(s, newHead) ELSE Tail(Append(s, newHead))

\* faulty variant: the counter is not decremented
GrowAfterMove_Stuck(gr) == gr

\* lines 121-122: the growth counter after the new head is pushed
GrowAfterMove(gr) == IF gr > 0 THEN gr - 1 ELSE gr

\* faulty variant: the score is counted in eats, not in points
ScoreAfterEat_One(sc) == sc + 1

\* lines 129-130
ScoreAfterEat(sc) == sc + EAT_SCORE

\* faulty variant: `grow = 2` instead of `grow += 2`
GrowAfterEat_Assign(gr) == EAT_GROW

GrowAfterEat(gr) == gr + EAT_GROW

\* faulty variant: the snapshot is not refreshed
Snapshot_Stale(prev, s) == prev

\* line 102: the new value of prevSnake, a copy of the snake
Snapshot(prev, s) == [i \in DOMAIN s |-> <<s[i][1], s[i][2]>>]

\* stepSnake, lines 100-134, with direction d: the set of results (one per
\* outcome of placeFood)
StepSnake(g, d, samples) ==
    LET g1 == [g EXCEPT !.prevSnake = Snapshot(g.prevSnake, g.snake)]
        head == Head1(g.snake)
        newHead == <<head[1] + d[1], head[2] + d[2]>>
        dead == [d |-> d, ate |-> FALSE, died |-> TRUE, g |-> g.grow]
    IN  IF OutOfBounds(newHead)
        THEN {[TriggerGameOver(g1) EXCEPT !.log = Append(@, dead)]}
        ELSE IF SelfCollision(g.snake, newHead)
        THEN {[TriggerGameOver(g1) EXCEPT !.log = Append(@, dead)]}
        ELSE
          LET s2 == MoveBody(g.snake, newHead, g.grow)
              gr2 == GrowAfterMove(g.grow)
              g2 == [g1 EXCEPT !.snake = s2, !.grow = gr2]
          IN  IF g.food # Null /\ newHead[1] = g.food[1] /\ newHead[2] = g.food[2]
              THEN {[g2 EXCEPT !.score = ScoreAfterEat(g.score),
                               !.grow = GrowAfterEat(gr2),
                               !.spawned = @ \o SpawnEatParticles(g.food[1], g.food[2],
                                                                  EAT_PARTICLES),
                               !.food = f,
                               !.placed = @ + 1,
                               !.log = Append(@, [d |-> d, ate |-> TRUE, died |-> FALSE,
                                                  g |-> GrowAfterEat(gr2)])]
                    : f \in PlaceFood(s2, samples)}
              ELSE {[g2 EXCEPT !.log = Append(@, [d |-> d, ate |-> FALSE,
                                                  died |-> FALSE, g |-> gr2])]}

\* faulty variant: the growth counter and the progress are not reset
StartNewGame_NoReset(g, samples) ==
    {[g EXCEPT !.score = 0, !.gameOver = FALSE, !.playing = TRUE,
               !.snake = InitialSnake, !.prevSnake = InitialSnake,
               !.dir = DIRS.right, !.nextDir = DIRS.right,
               !.food = f, !.placed = @ + 1]
     : f \in PlaceFood(InitialSnake, samples)}

\* startNewGame, lines 62-81: the set of results (one per outcome of placeFood)
StartNewGame(g, samples) ==
    {[g EXCEPT !.score = 0, !.gameOver = FALSE, !.playing = TRUE,
               !.snake = InitialSnake, !.prevSnake = InitialSnake,
               !.dir = DIRS.right, !.nextDir = DIRS.right,
               !.grow = 0, !.stepProgress = 0, !.food = f, !.placed = @ + 1]
     : f \in PlaceFood(InitialSnake, samples)}

\* ---------------------------------------------------------------- the driver
\* faulty variant: the elapsed time is not clamped
ClampDt_None(elapsed) == elapsed

\* line 302
ClampDt(elapsed) == Min(MAX_DT_MS, elapsed)

\* line 308
Accumulate(p, dt) == p + dt * STEPS_PER_SECOND_X2

\* lines 309-311
StepsToDo(p) == IF p >= ONE THEN p \div ONE ELSE 0

\* faulty variant: the executed steps are not subtracted
Remainder_Kept(p) == p

\* line 312
Remainder(p) == p - StepsToDo(p) * ONE

\* lines 313-316: n iterations of the loop, from each state of G
RECURSIVE RunSteps(_, _, _, _)
RunSteps(G, d, n, samples) ==
    IF n = 0 THEN G
    ELSE RunSteps(UNION {IF g.playing THEN StepSnake(g, d, samples) ELSE {g} : g \in G},
                  d, n - 1, samples)

\* ------------------------------------------------------------------ history
RECURSIVE FoldDirs(_, _)
FoldDirs(pair, log) ==
    IF log = <<>> THEN pair
    ELSE FoldDirs(<<pair[2], Head(log).d>>, Tail(log))

RECURSIVE FoldEat(_, _)
FoldEat(el, log) ==
    IF log = <<>> THEN el
    ELSE LET ev == Head(log)
             aged == [i \in DOMAIN el |->
                        [age |-> Min(el[i].age + 1, MaxAge), g |-> el[i].g]]
         IN  FoldEat(IF ev.died THEN el
                     ELSE IF ev.ate THEN Append(aged, [age |-> 0, g |-> ev.g])
                     ELSE aged,
                     Tail(log))

\* ------------------------------------------------------------------ actions
Init ==
    /\ playing = FALSE
    /\ gameOver = FALSE
    /\ score = 0
    /\ stepProgress = 0
    /\ snake = <<>>
    /\ prevSnake = <<>>
    /\ dir = DIRS.right
    /\ nextDir = DIRS.right
    /\ grow = 0
    /\ food = Null
    /\ spawned = <<>>
    /\ lastOp = "init"
    /\ lastKey = NoDir
    /\ stepsDone = 0
    /\ stepDirs = <<NoDir, NoDir>>
    /\ eatLog = <<>>
    /\ foodPlaced = 0
    /\ games = 0
    /\ steps = 0
    /\ keys = 0

\* the assignments of startNewGame, called by handler `op`
DoStart(op, samples) ==
    \E g \in StartNewGame(Sim, samples) :
        /\ score' = g.score
        /\ gameOver' = g.gameOver
        /\ playing' = g.playing
        /\ snake' = g.snake
        /\ prevSnake' = g.prevSnake
        /\ dir' = g.dir
        /\ nextDir' = g.nextDir
        /\ grow' = g.grow
        /\ stepProgress' = g.stepProgress
        /\ food' = g.food
        /\ foodPlaced' = g.placed
        /\ spawned' = <<>>
        /\ lastOp' = op
        /\ lastKey' = NoDir
        /\ stepsDone' = 0
        /\ stepDirs' = <<NoDir, NoDir>>
        /\ eatLog' = <<>>
        /\ games' = games + 1
        /\ steps' = 0
        /\ keys' = 0

\* window.SnakeGame.start(), line 362
Start(samples, maxGames) ==
    /\ games < maxGames
    /\ DoStart("start", samples)

\* window.SnakeGame.stop(), line 363
Stop ==
    /\ playing' = FALSE
    /\ gameOver' = TRUE
    /\ spawned' = <<>>
    /\ lastOp' = "stop"
    /\ lastKey' = NoDir
    /\ stepsDone' = 0
    /\ foodPlaced' = 0
    /\ UNCHANGED <<score, stepProgress, snake, prevSnake, dir, nextDir, grow,
                   food, stepDirs, eatLog, games, steps, keys>>

\* faulty variant: Space restarts in every phase
SpaceStarts_Always(pl) == TRUE

\* line 172: the guard of startNewGame in the keydown listener
SpaceStarts(pl) == ~pl

\* the keydown listener, lines 170-178
KeyDown(code, samples, maxGames, maxKeys) ==
    IF code = "Space" /\ SpaceStarts(playing)
    THEN /\ games < maxGames
         /\ DoStart("spaceStart", samples)
    ELSE IF code \in DOMAIN keyDirMap
    THEN /\ keys < maxKeys
         /\ nextDir' = QueueDirection(keyDirMap[code], dir, nextDir)
         /\ spawned' = <<>>
         /\ lastOp' = "key"
         /\ lastKey' = keyDirMap[code]
         /\ stepsDone' = 0
         /\ keys' = keys + 1
         /\ foodPlaced' = 0
         /\ UNCHANGED <<playing, gameOver, score, stepProgress, snake,
                        prevSnake, dir, grow, food, stepDirs, eatLog, games,
                        steps>>
    ELSE /\ spawned' = <<>>
         /\ lastOp' = IF code = "Space" THEN "spaceIgnored" ELSE "keyIgnored"
         /\ lastKey' = NoDir
         /\ stepsDone' = 0
         /\ foodPlaced' = 0
         /\ UNCHANGED <<playing, gameOver, score, stepProgress, snake,
                        prevSnake, dir, nextDir, grow, food, stepDirs, eatLog,
                        games, steps, keys>>

\* loop, lines 301-318, for a frame whose raw elapsed time is `elapsed` ms
Frame(elapsed, samples, maxSteps) ==
    LET dt == ClampDt(elapsed)
    IN  IF playing
        THEN LET d1 == IF ~gameOver THEN nextDir ELSE dir
                 p1 == Accumulate(stepProgress, dt)
                 n == StepsToDo(p1)
             IN  /\ steps + n <= maxSteps
                 /\ \E g \in RunSteps({Sim}, d1, n, samples) :
                      /\ dir' = d1
                      /\ stepProgress' = Remainder(p1)
                      /\ snake' = g.snake
                      /\ prevSnake' = g.prevSnake
                      /\ grow' = g.grow
                      /\ score' = g.score
                      /\ food' = g.food
                      /\ playing' = g.playing
                      /\ gameOver' = g.gameOver
                      /\ spawned' = g.spawned
                      /\ foodPlaced' = g.placed
                      /\ stepsDone' = Len(g.log)
                      /\ stepDirs' = FoldDirs(stepDirs, g.log)
                      /\ eatLog' = FoldEat(eatLog, g.log)
                      /\ steps' = steps + Len(g.log)
                 /\ lastOp' = "frame"
                 /\ lastKey' = NoDir
                 /\ UNCHANGED <<nextDir, games, keys>>
        ELSE /\ spawned' = <<>>
             /\ lastOp' = "frame"
             /\ lastKey' = NoDir
             /\ stepsDone' = 0
             /\ foodPlaced' = 0
             /\ UNCHANGED <<playing, gameOver, score, stepProgress, snake,
                            prevSnake, dir, nextDir, grow, food, stepDirs,
                            eatLog, games, steps, keys>>

Next ==
    \/ \E e \in Elapsed : Frame(e, FoodSamples, MaxSteps)
    \/ \E c \in KeyCodes : KeyDown(c, FoodSamples, MaxGames, MaxKeys)
    \/ Start(FoodSamples, MaxGames)
    \/ Stop

Spec == Init /\ [][Next]_vars

NextLong ==
    \/ \E e \in ElapsedLong : Frame(e, FoodSamplesLong, MaxStepsLong)
    \/ \E c \in KeyCodesLong : KeyDown(c, FoodSamplesLong, MaxGamesLong, MaxKeysLong)

SpecLong == Init /\ [][NextLong]_vars

\* ------------------------------------------------------------------- claims
Reverse(d) == <<0 - d[1], 0 - d[2]>>

Cells(s) == {s[i] : i \in DOMAIN s}

StartOps == {"start", "spaceStart"}

\* the candidate head of the first step of the frame being taken: the head
\* plus the direction the frame steps with
Candidate == <<Head1(snake)[1] + dir'[1], Head1(snake)[2] + dir'[2]>>

\* the frame being taken executes a step
StepTaken == playing /\ lastOp' = "frame" /\ stepsDone' >= 1

CandidateCollides ==
    \/ Candidate[1] < 0 \/ Candidate[1] > GRID_W - 1
    \/ Candidate[2] < 0 \/ Candidate[2] > GRID_H - 1
    \/ Candidate \in Cells(snake)

\* C1 -- No U-turn: within one game the direction used by an executed step
\* is never the exact reverse of the direction used by the step executed
\* just before it, and the first step of a game is never 'left'.
C1_NoUTurn ==
    /\ stepDirs[1] # NoDir => stepDirs[2] # Reverse(stepDirs[1])
    /\ (stepDirs[1] = NoDir /\ stepDirs[2] # NoDir) => stepDirs[2] # DIRS.left

\* C2 -- Collision correctness: a step whose candidate head is outside the
\* grid or on any segment of the body (the tail cell included) makes the
\* phase GameOver and leaves snake, score, growth counter and food as they
\* were; from then on, until startNewGame runs, no handler executes a step
\* or changes snake, score, growth counter, food or step progress.
C2_CollisionFreezes ==
    [][ /\ (StepTaken /\ CandidateCollides)
           => (/\ gameOver' /\ ~playing'
               /\ snake' = snake /\ score' = score
               /\ grow' = grow /\ food' = food)
        /\ (gameOver /\ ~playing /\ lastOp' \notin StartOps)
           => (/\ stepsDone' = 0
               /\ snake' = snake /\ score' = score /\ grow' = grow
               /\ food' = food /\ stepProgress' = stepProgress)
      ]_vars

\* a frame after a collision with the tail cell of a non-growing snake
C2_Witness ==
    /\ gameOver /\ ~playing
    /\ lastOp = "frame" /\ stepsDone = 0
    /\ grow = 0 /\ steps > 0
    /\ <<Head1(snake)[1] + dir[1], Head1(snake)[2] + dir[2]>> = snake[1]

\* a frame after a collision with a wall
C2_WallReached ==
    /\ gameOver /\ ~playing
    /\ lastOp = "frame" /\ stepsDone = 0 /\ steps > 0
    /\ Head1(snake)[2] + dir[2] < 0

\* C3 -- No self-overlap: in every reachable state the segments of the
\* snake are pairwise distinct.
C3_NoSelfOverlap ==
    \A i, j \in DOMAIN snake : i # j => snake[i] # snake[j]

\* a snake that has grown by two eats and then had a step refused
C3_Witness ==
    /\ Len(snake) >= 6
    /\ gameOver /\ lastOp = "frame" /\ stepsDone = 1

\* C4 -- Food placement: every time placeFood has run (in startNewGame and
\* after an eat) the food cell is not occupied by any segment of the snake.
C4_FoodOffSnake ==
    foodPlaced > 0 => food \notin Cells(snake)

\* C4 as amended: the cell is off the snake whenever startNewGame placed
\* the food and whenever a draw succeeded; only the fallback cell (1,1),
\* used after an eat, can lie on the snake.
C4_FoodOffSnakeUnlessFallback ==
    foodPlaced > 0 =>
        \/ food \notin Cells(snake)
        \/ (food = <<1, 1>> /\ lastOp = "frame")

\* food re-placed after an eat that happened far from the start cells
C4_Witness ==
    /\ lastOp = "frame" /\ foodPlaced > 0
    /\ food \in {<<19, 14>>, <<20, 14>>}
    /\ food \notin Cells(snake)

\* a step that is not refused and whose new head is on the food
EatStep == StepTaken /\ ~CandidateCollides /\ food # Null /\ Candidate = food

\* a step that is not an EatStep
PlainStep == StepTaken /\ ~EatStep

\* the centre of a cell, in canvas pixels
CentreOf(c) == <<c[1] * CELL + CELL \div 2, c[2] * CELL + CELL \div 2>>

EatEffects(growDelta) ==
    /\ score' = score + 10
    /\ grow' = grow + growDelta
    /\ Len(spawned') = 18
    /\ \A i \in DOMAIN spawned' : spawned'[i] = CentreOf(food)
    /\ foodPlaced' = 1
    /\ food' # Null
    /\ (food' \notin Cells(snake') \/ food' = <<1, 1>>)

PlainEffects ==
    /\ score' = score
    /\ food' = food
    /\ foodPlaced' = 0
    /\ ~CandidateCollides => spawned' = <<>>

\* C5 -- Eat event: a non-colliding step onto the food adds 10 to the
\* score and 2 to the growth counter, adds a burst of 18 particles at the
\* centre of the food's cell and re-places the food; any other step leaves
\* score and food alone and adds no particles unless it collides.
C5_EatEvent ==
    [][ /\ EatStep => EatEffects(2)
        /\ PlainStep => PlainEffects ]_vars

\* C5 as amended: over the whole step the growth counter rises by 2 when
\* it was 0 before the step and by 1 when it was positive (the step first
\* spends one pending growth, then the eat adds 2).
C5_EatEventNet ==
    [][ /\ EatStep => EatEffects(IF grow > 0 THEN 1 ELSE 2)
        /\ PlainStep => PlainEffects ]_vars

\* an eat taken while growth from an earlier eat was still pending
C5_Witness ==
    /\ lastOp = "frame" /\ stepsDone = 1 /\ foodPlaced = 1
    /\ score = 20 /\ grow = 3

Last(s) == s[Len(s)]

\* the last handler was a frame that executed one step, not refused
StepDone == lastOp = "frame" /\ stepsDone = 1 /\ playing

LenDelta == Len(snake) - Len(prevSnake)

\* C6 -- Growth invariant: after every eat event the length grows by
\* exactly 1 in each of the next two non-colliding steps and stays constant
\* from the third step after the eat on.
C6_Growth ==
    StepDone =>
        \A i \in DOMAIN eatLog :
            /\ eatLog[i].age \in {1, 2} => LenDelta = 1
            /\ eatLog[i].age >= 3 => LenDelta = 0

\* C6 as amended: the constant-length part holds from the third step after
\* an eat that left the growth counter at exactly 2, as long as no further
\* eat has happened since.
C6_GrowthUntilNextEat ==
    StepDone =>
        /\ \A i \in DOMAIN eatLog : eatLog[i].age \in {1, 2} => LenDelta = 1
        /\ (eatLog # <<>> /\ Last(eatLog).age >= 3 /\ Last(eatLog).g = 2)
               => LenDelta = 0

\* the third step after a single eat
C6_Witness ==
    /\ StepDone
    /\ Len(eatLog) = 1 /\ eatLog[1].age = 3 /\ eatLog[1].g = 2
    /\ Len(snake) = 6

\* C7 -- Snake length invariant: a step taken with growth counter 0 that is
\* not an eat leaves the length and the counter as they were: if it is not
\* refused it appends the new head and removes the tail, if it collides it
\* changes nothing.
C7_ConstantLength ==
    [][ (PlainStep /\ grow = 0) =>
            /\ Len(snake') = Len(snake)
            /\ grow' = 0
            /\ ~CandidateCollides =>
                   /\ Last(snake') = Candidate
                   /\ \A i \in 1..(Len(snake) - 1) : snake'[i] = snake[i + 1]
            /\ CandidateCollides => snake' = snake
      ]_vars

\* three steps into a fresh game without an eat
C7_Witness ==
    /\ StepDone /\ steps >= 3
    /\ score = 0 /\ grow = 0 /\ eatLog = <<>>
    /\ Len(snake) = 4

\* C8 -- Reversal rejection: in every phase queueDirection(d) leaves the
\* pending direction alone when d is the reverse of the current or of the
\* pending direction, sets it to d otherwise, and changes nothing else.
C8_ReversalRejected ==
    [][ lastOp' = "key" =>
            /\ nextDir' = IF lastKey' = Reverse(dir) \/ lastKey' = Reverse(nextDir)
                          THEN nextDir ELSE lastKey'
            /\ dir' = dir /\ snake' = snake /\ prevSnake' = prevSnake
            /\ food' = food /\ score' = score /\ grow' = grow
            /\ playing' = playing /\ gameOver' = gameOver
            /\ stepProgress' = stepProgress
      ]_vars

\* a key refused only because it reverses the pending direction
C8_Witness ==
    /\ lastOp = "key"
    /\ nextDir # dir
    /\ lastKey = Reverse(nextDir)
    /\ lastKey # Reverse(dir)

\* C9 -- Interpolation bound: after every handler, in every phase,
\* 0 <= stepProgress < 1.
C9_ProgressInUnit ==
    0 <= stepProgress /\ stepProgress < 2000

\* the end of a frame whose step collided, with a remainder left
C9_Witness ==
    /\ lastOp = "frame" /\ stepsDone = 1 /\ gameOver
    /\ stepProgress > 0

\* C10 -- startNewGame reset: after startNewGame, from whatever state, the
\* phase is Playing, score, growth counter and progress are 0, the snake is
\* [(17,14),(18,14),(19,14),(20,14)], the snapshot equals it, current and
\* pending direction are 'right' and a food is placed.
C10_StartResets ==
    lastOp \in StartOps =>
        /\ playing /\ ~gameOver
        /\ score = 0 /\ grow = 0 /\ stepProgress = 0
        /\ snake = << <<17, 14>>, <<18, 14>>, <<19, 14>>, <<20, 14>> >>
        /\ prevSnake = snake
        /\ dir = <<1, 0>> /\ nextDir = <<1, 0>>
        /\ food # Null /\ foodPlaced = 1

\* a second game started with the Space key
C10_Witness ==
    /\ lastOp = "spaceStart"
    /\ games = 2

\* a game in which exactly three steps were executed, no direction key was
\* delivered and nothing was eaten
ThreeStraightSteps ==
    /\ games >= 1 /\ steps = 3 /\ keys = 0
    /\ score = 0 /\ eatLog = <<>>

\* C11 -- End-to-end straight run: three executed steps after startNewGame,
\* with no direction change and no food on the path, leave the snake at
\* [(18,14),(19,14),(20,14),(21,14)], of length 4, with score 0.
C11_StraightRun ==
    ThreeStraightSteps =>
        /\ snake = << <<18, 14>>, <<19, 14>>, <<20, 14>>, <<21, 14>> >>
        /\ Len(snake) = 4
        /\ score = 0

\* C11 as amended: each step moves the snake by one cell, so three steps
\* leave it at [(20,14),(21,14),(22,14),(23,14)].
C11_StraightRunThreeCells ==
    ThreeStraightSteps =>
        /\ snake = << <<20, 14>>, <<21, 14>>, <<22, 14>>, <<23, 14>> >>
        /\ Len(snake) = 4
        /\ score = 0

\* the end of the frame that executed the third step
C11_Witness ==
    /\ ThreeStraightSteps
    /\ lastOp = "frame" /\ stepsDone = 1 /\ playing

\* C12 -- Death burst: a step that collides adds exactly 36 particles, all
\* at the centre of the cell of the head as it was before the step, and no
\* handler that runs while the phase is GameOver adds any particle.
C12_DeathBurst ==
    [][ /\ (StepTaken /\ CandidateCollides)
           => (/\ Len(spawned') = 36
               /\ \A i \in DOMAIN spawned' : spawned'[i] = CentreOf(Head1(snake)))
        /\ (gameOver /\ ~playing) => spawned' = <<>>
      ]_vars

\* the burst of a collision with the top wall
C12_Witness ==
    /\ gameOver /\ ~playing
    /\ lastOp = "frame" /\ stepsDone = 1
    /\ Head1(snake)[2] = 0 /\ dir = <<0, -1>>
    /\ Len(spawned) = 36
    /\ spawned[1] = <<Head1(snake)[1] * 14 + 7, 7>>

\* the handler being run is the keydown listener with the Space key
SpaceDelivered == lastOp' \in {"spaceStart", "spaceIgnored"}

\* C13 -- Start command: the Space key delivered while Playing changes
\* nothing of the game; delivered in NotStarted or GameOver it runs
\* startNewGame.
C13_SpaceNoOpWhilePlaying ==
    [][ /\ (SpaceDelivered /\ playing)
           => (/\ snake' = snake /\ prevSnake' = prevSnake
               /\ dir' = dir /\ nextDir' = nextDir
               /\ grow' = grow /\ food' = food /\ score' = score
               /\ stepProgress' = stepProgress
               /\ playing' = playing /\ gameOver' = gameOver)
        /\ (SpaceDelivered /\ ~playing)
           => (/\ playing' /\ ~gameOver'
               /\ score' = 0 /\ grow' = 0 /\ stepProgress' = 0
               /\ snake' = << <<17, 14>>, <<18, 14>>, <<19, 14>>, <<20, 14>> >>
               /\ prevSnake' = snake'
               /\ dir' = <<1, 0>> /\ nextDir' = <<1, 0>>
               /\ foodPlaced' = 1)
      ]_vars

\* Space delivered in the middle of a game that has moved and eaten
C13_Witness ==
    /\ lastOp = "spaceIgnored"
    /\ playing /\ steps >= 2 /\ score > 0

Phase == IF playing THEN "Playing" ELSE IF gameOver THEN "GameOver" ELSE "NotStarted"

PhaseOK ==
    /\ ~(playing /\ gameOver)
    /\ ~(playing' /\ gameOver')
    /\ (Phase # "Playing" /\ Phase' = "Playing") => lastOp' \in StartOps
    /\ (Phase # "NotStarted") => (Phase' # "NotStarted")

\* C14 -- Phase lifecycle: playing and gameOver are never both true;
\* Playing is entered only by startNewGame; GameOver is entered only from
\* Playing and only by a collision in a step; NotStarted is never entered
\* again.
C14_Lifecycle ==
    [][ /\ PhaseOK
        /\ (Phase # "GameOver" /\ Phase' = "GameOver")
           => (StepTaken /\ CandidateCollides)
      ]_vars

\* C14 as amended: GameOver is entered by a collision in a step, from
\* Playing, or by stop(), from Playing or from NotStarted.
C14_LifecycleWithStop ==
    [][ /\ PhaseOK
        /\ (Phase # "GameOver" /\ Phase' = "GameOver")
           => \/ (StepTaken /\ CandidateCollides)
              \/ lastOp' = "stop"
      ]_vars

\* a second game that ended by a collision
C14_Witness ==
    /\ Phase = "GameOver"
    /\ games = 2
    /\ lastOp = "frame" /\ stepsDone = 1

\* C15 -- Direction resolution once per step: the current direction
\* changes only in a frame that executes a step (or when startNewGame
\* resets it); a frame that executes no step leaves it as it was.
C15_DirChangesOnlyWithStep ==
    [][ /\ (lastOp' = "frame" /\ stepsDone' = 0) => dir' = dir
        /\ dir' # dir => \/ (lastOp' = "frame" /\ stepsDone' >= 1)
                         \/ lastOp' \in StartOps
      ]_vars

InGrid(c) == 0 <= c[1] /\ c[1] < 40 /\ 0 <= c[2] /\ c[2] < 28

\* C16 -- Grid bounds: every segment of the snake lies in the grid, and
\* once startNewGame has run the food is present and lies in the grid.
C16_GridBounds ==
    /\ \A i \in DOMAIN snake : InGrid(snake[i])
    /\ games >= 1 => (food # Null /\ InGrid(food))

\* a snake stopped at the top wall while the food is on the fallback cell
C16_Witness ==
    /\ gameOver /\ lastOp = "frame" /\ stepsDone = 1
    /\ Head1(snake)[2] = 0 /\ dir = <<0, -1>>
    /\ food = <<1, 1>>

Abs(n) == IF n < 0 THEN 0 - n ELSE n

Manhattan(a, b) == Abs(a[1] - b[1]) + Abs(a[2] - b[2])

\* C17 -- Previous-snapshot consistency: prevSnake is as long as the snake
\* or one shorter, every segment it holds is at most one cell away from the
\* segment of the same index of the snake, and after a refused step and
\* after startNewGame the two are equal.
C17_SnapshotConsistent ==
    /\ Len(prevSnake) <= Len(snake)
    /\ Len(snake) <= Len(prevSnake) + 1
    /\ \A i \in DOMAIN prevSnake : Manhattan(prevSnake[i], snake[i]) <= 1
    /\ (lastOp = "frame" /\ stepsDone >= 1 /\ gameOver) => prevSnake = snake
    /\ lastOp \in StartOps => prevSnake = snake

\* a turning snake that has just grown by one segment
C17_Witness ==
    /\ StepDone
    /\ Len(snake) = Len(prevSnake) + 1
    /\ Len(snake) >= 6
    /\ Head1(snake)[2] # 14

\* C18 -- Bounded catch-up: no frame executes more than one step, however
\* long the elapsed time.
C18_OneStepPerFrame ==
    stepsDone <= 1

\* a step executed by a frame that started with progress 0.875 and a
\* clamped delta of 0.1 s
C18_Witness ==
    /\ lastOp = "frame" /\ stepsDone = 1
    /\ stepProgress = 1250

\* C19 -- Score/length accounting: once startNewGame has run,
\* len(snake) + grow = 4 + 2 * (score / 10), score is a non-negative
\* multiple of 10 and grow is non-negative.
C19_Accounting ==
    games >= 1 =>
        /\ score >= 0 /\ score % 10 = 0
        /\ grow >= 0
        /\ Len(snake) + grow = 4 + 2 * (score \div 10)

\* two eats, part of the growth done, then stop()
C19_Witness ==
    /\ lastOp = "stop"
    /\ score = 20 /\ grow = 1 /\ Len(snake) = 7

\* C20 -- Pending/current compatibility: the pending direction is never
\* the exact reverse of the current direction.
C20_PendingNotReverse ==
    nextDir # Reverse(dir)

\* a reversal of the current direction refused while another direction
\* was pending
C20_Witness ==
    /\ lastOp = "key"
    /\ lastKey = Reverse(dir)
    /\ nextDir # dir

====
